---- MODULE Spec2Model ----
(***************************************************************************)
(* Feature derivation (data_loader.load_data) and conversion-rate          *)
(* aggregation (utils.calculate_conversion_rate and the grouped tables of  *)
(* the trip-characteristics tab) of the travel-booking dashboard.          *)
(*                                                                         *)
(* Representation of pandas / numpy values:                                *)
(*   - a float64 / datetime64 cell is [isna, v]: NaN and NaT are isna;     *)
(*     a Timestamp's v is the number of hours since 2013-01-01 00:00;      *)
(*   - an object (string) cell is a string; NA is the missing object       *)
(*     value (float nan held in an object column), "nan" is the 3-letter   *)
(*     text;                                                               *)
(*   - year_month "YYYY-MM" is encoded as the number YYYY*100 + MM;        *)
(*   - distances are whole units; a ratio is an exact fraction num/den in  *)
(*     lowest terms (floating-point rounding is not modelled).             *)
(***************************************************************************)
EXTENDS Integers, Sequences, FiniteSets, TLC

\* ---- bounds of the explored inputs ----
MaxRows == 4
MaxAdults == 3
MaxChildren == 2
MaxViewRows == 3      \* records of a multi-record travel.csv the views are applied to
MaxExtra == 0         \* records beyond the sample size in a file the app is run on
MaxFill == 14         \* groups of one profile in a grouped table of the top-N views
MaxRuns == 2          \* page runs of app.py within one process

VARIABLES
    csv,              \* travel.csv: the raw rows read by pd.read_csv
    numpy_legacy,     \* TRUE: numpy promotes (str, float) to str in np.select; FALSE: it raises
    status,           \* "start" | "loaded" | "error"  (app.py: before / after load_data)
    df,               \* the dataframe returned by load_data
    group_by_col,     \* argument of the last calculate_conversion_rate call ("" before any)
    summary,          \* result of the last calculate_conversion_rate call
    trip_tab,         \* tables built by show_trip_characteristics_tab (<<>> before it ran)
    columns,          \* df.columns: the column names of the dataframe
    last_call,        \* argument and exception of the last calculate_conversion_rate call
    view,             \* what the last rendered view function computed, or the exception it raised
    app,              \* the run of the app.py script: position, tabs rendered, exception
    topn              \* a top-N selection: the grouped table, the view, the rows selected

vars == <<csv, numpy_legacy, status, df, group_by_col, summary, trip_tab,
          columns, last_call, view, app, topn>>

\* ---- missing values ----
NaN == [isna |-> TRUE, v |-> 0]
NaT == NaN
Num(x) == [isna |-> FALSE, v |-> x]
NA == "<NA>"

\* ---- raw cells of the date columns of travel.csv ----
EmptyCell == [kind |-> "empty", y |-> 0, m |-> 0, d |-> 0, h |-> 0]
TextCell == [kind |-> "text", y |-> 0, m |-> 0, d |-> 0, h |-> 0]
DateCell(y, m, d, h) == [kind |-> "date", y |-> y, m |-> m, d |-> d, h |-> h]

DaysInMonth == <<31, 28, 31, 30, 31, 30, 31, 31, 30, 31, 30, 31>>

RECURSIVE DaysBeforeMonth(_)
DaysBeforeMonth(m) == IF m <= 1 THEN 0 ELSE DaysBeforeMonth(m - 1) + DaysInMonth[m - 1]

\* the text of the cell denotes a point in time
Parseable(cell) ==
    /\ cell.kind = "date"
    /\ cell.y \in 2013..2014
    /\ cell.m \in 1..12
    /\ cell.d \in 1..DaysInMonth[cell.m]
    /\ cell.h \in 0..23

\* pd.to_datetime(..., errors='coerce') on one cell; an empty cell is NaT in
\* either mode, an unparseable one is NaT only under 'coerce'
to_datetime(cell) ==
    IF Parseable(cell)
    THEN Num((((cell.y - 2013) * 365 + DaysBeforeMonth(cell.m) + (cell.d - 1)) * 24) + cell.h)
    ELSE NaT

\* pd.to_datetime(df['date_time']) with the default errors='raise'
to_datetime_raises(column) ==
    \E i \in 1..Len(column) : column[i].kind # "empty" /\ ~Parseable(column[i])

\* .dt.strftime('%Y-%m')
strftime_Ym(ts) ==
    IF ts.isna THEN NaN
    ELSE LET day == ts.v \div 24
             yr == 2013 + (day \div 365)
             doy == day % 365
             mo == CHOOSE m \in 1..12 :
                       DaysBeforeMonth(m) <= doy /\ doy < DaysBeforeMonth(m) + DaysInMonth[m]
         IN  Num(yr * 100 + mo)

\* (a - b).dt.days : whole days of the Timedelta, rounded towards minus infinity
dt_days(a, b) ==
    IF a.isna \/ b.isna THEN NaN ELSE Num((a.v - b.v) \div 24)

\* comparisons of a float column with a scalar: False on NaN
Lt(x, c) == ~x.isna /\ x.v < c
Le(x, c) == ~x.isna /\ x.v <= c
Gt(x, c) == ~x.isna /\ x.v > c
Ge(x, c) == ~x.isna /\ x.v >= c

\* np.select for one row: the choice of the first true condition, else default
np_select(condlist, choicelist, default) ==
    IF \E i \in 1..Len(condlist) : condlist[i]
    THEN choicelist[CHOOSE i \in 1..Len(condlist) :
                        condlist[i] /\ \A j \in 1..(i - 1) : ~condlist[j]]
    ELSE default

\* default=np.nan next to string choices: the result array has a unicode
\* dtype, so the float nan is stored as its text
nan_as_str == "nan"

\* ---- derived columns of load_data, for one row ----

\* travel_group (np.select over the five party conditions, default 'Other')
\* variant: the Group rule written adults >= 2
travel_group_conditions_overlap(adults, children) ==
    << adults = 1 /\ children = 0,
       adults = 2 /\ children = 0,
       adults = 1 /\ children > 0,
       adults = 2 /\ children > 0,
       adults >= 2 >>

travel_group_conditions(adults, children) ==
    << adults = 1 /\ children = 0,
       adults = 2 /\ children = 0,
       adults = 1 /\ children > 0,
       adults = 2 /\ children > 0,
       adults > 2 >>

travel_group(adults, children) ==
    np_select(travel_group_conditions(adults, children),
              << "Solo", "Couple", "Single Parent", "Family", "Group" >>,
              "Other")

\* variant: first bound strict (< 3)
duration_category_strict(trip_duration) ==
    np_select(<< Lt(trip_duration, 3),
                 Le(trip_duration, 7),
                 Le(trip_duration, 14),
                 Gt(trip_duration, 14) >>,
              << "1-3 days", "4-7 days", "8-14 days", "15+ days" >>,
              nan_as_str)

\* duration_category
duration_category(trip_duration) ==
    np_select(<< Le(trip_duration, 3),
                 Le(trip_duration, 7),
                 Le(trip_duration, 14),
                 Gt(trip_duration, 14) >>,
              << "1-3 days", "4-7 days", "8-14 days", "15+ days" >>,
              nan_as_str)

\* variant: first bound inclusive (<= 7)
window_category_inclusive(booking_window) ==
    np_select(<< Le(booking_window, 7),
                 Lt(booking_window, 14),
                 Lt(booking_window, 30),
                 Lt(booking_window, 60),
                 Lt(booking_window, 90),
                 Ge(booking_window, 90) >>,
              << "0-6 days", "7-13 days", "14-29 days", "30-59 days", "60-89 days", "90+ days" >>,
              nan_as_str)

\* window_category
window_category(booking_window) ==
    np_select(<< Lt(booking_window, 7),
                 Lt(booking_window, 14),
                 Lt(booking_window, 30),
                 Lt(booking_window, 60),
                 Lt(booking_window, 90),
                 Ge(booking_window, 90) >>,
              << "0-6 days", "7-13 days", "14-29 days", "30-59 days", "60-89 days", "90+ days" >>,
              nan_as_str)

\* variant: last bound strict (> 2000), so 2000 matches no condition
distance_category_strict(distance) ==
    np_select(<< Lt(distance, 100),
                 Lt(distance, 500),
                 Lt(distance, 1000),
                 Lt(distance, 2000),
                 Gt(distance, 2000) >>,
              << "< 100", "100-500", "500-1000", "1000-2000", "> 2000" >>,
              nan_as_str)

\* distance_category
distance_category(distance) ==
    np_select(<< Lt(distance, 100),
                 Lt(distance, 500),
                 Lt(distance, 1000),
                 Lt(distance, 2000),
                 Ge(distance, 2000) >>,
              << "< 100", "100-500", "500-1000", "1000-2000", "> 2000" >>,
              nan_as_str)

\* variant: the two device names swapped in the dict
map_mobile_swapped(is_mobile) ==
    IF is_mobile = 1 THEN "Desktop" ELSE IF is_mobile = 0 THEN "Mobile" ELSE NA

\* Series.map with a dict: a value that is no key of the dict maps to NA
map_mobile(is_mobile) ==
    IF is_mobile = 1 THEN "Mobile" ELSE IF is_mobile = 0 THEN "Desktop" ELSE NA

map_package(is_package) ==
    IF is_package = 1 THEN "Package" ELSE IF is_package = 0 THEN "Non-Package" ELSE NA

\* a + ', ' + b on object columns: NA if either side is NA
str_join(a, b) ==
    IF a = NA \/ b = NA THEN NA
    ELSE IF a = "Mobile" /\ b = "Package" THEN "Mobile, Package"
    ELSE IF a = "Mobile" /\ b = "Non-Package" THEN "Mobile, Non-Package"
    ELSE IF a = "Desktop" /\ b = "Package" THEN "Desktop, Package"
    ELSE "Desktop, Non-Package"

\* device_package
device_package(is_mobile, is_package) ==
    str_join(map_mobile(is_mobile), map_package(is_package))

\* one row of the dataframe load_data returns
load_row(r) ==
    LET date_time == to_datetime(r.date_time)
        srch_ci == to_datetime(r.srch_ci)
        srch_co == to_datetime(r.srch_co)
        trip_duration == dt_days(srch_co, srch_ci)
        booking_window == dt_days(srch_ci, date_time)
    IN  [ date_time |-> date_time,
          srch_ci |-> srch_ci,
          srch_co |-> srch_co,
          srch_adults_cnt |-> r.srch_adults_cnt,
          srch_children_cnt |-> r.srch_children_cnt,
          is_mobile |-> r.is_mobile,
          is_package |-> r.is_package,
          is_booking |-> r.is_booking,
          orig_destination_distance |-> r.orig_destination_distance,
          hotel_market |-> r.hotel_market,
          user_location_country |-> r.user_location_country,
          channel |-> r.channel,
          year_month |-> strftime_Ym(date_time),
          trip_duration |-> trip_duration,
          booking_window |-> booking_window,
          travel_group |-> travel_group(r.srch_adults_cnt, r.srch_children_cnt),
          duration_category |-> duration_category(trip_duration),
          window_category |-> window_category(booking_window),
          device_package |-> device_package(r.is_mobile, r.is_package),
          distance_category |-> distance_category(r.orig_destination_distance) ]

\* load_data raises instead of returning: an unparseable date_time (errors
\* defaults to 'raise'), or a numpy that finds no common dtype for the string
\* choices and the float default of np.select
load_data_raises(rows, legacy) ==
    \/ to_datetime_raises([i \in 1..Len(rows) |-> rows[i].date_time])
    \/ ~legacy

load_data(rows) == [i \in 1..Len(rows) |-> load_row(rows[i])]

\* ---- dataframe columns ----
StrCols == {"travel_group", "duration_category", "window_category",
            "device_package", "distance_category"}
FloatCols == {"year_month", "trip_duration", "booking_window", "orig_destination_distance"}
IntCols == {"is_mobile", "is_package", "is_booking", "srch_adults_cnt", "srch_children_cnt",
            "hotel_market", "user_location_country", "channel"}

\* header of travel.csv (the columns the program reads) and df.columns after load_data
CsvColumns ==
    {"date_time", "srch_ci", "srch_co", "orig_destination_distance"} \cup IntCols

LoadedColumns == CsvColumns \cup StrCols \cup FloatCols

\* pandas isna on a cell of the column
\* the columns show_temporal_patterns adds
TemporalCols == {"search_hour", "search_day", "search_month"}

\* object (string) columns and float columns of a frame
ObjectCols == StrCols \cup {"search_day", "search_month", "device", "package"}
NumberCols == FloatCols \cup {"search_hour"}

isna(col, value) ==
    IF col = "full_segment" THEN NA \in {value[1], value[2], value[3]}
    ELSE IF col \in ObjectCols THEN value = NA
    ELSE IF col \in NumberCols THEN value.isna
    ELSE FALSE

\* every string a column can hold, in the order pandas sorts them (code points)
StrOrder ==
    << "0-6 days", "1-3 days", "100-500", "1000-2000", "14-29 days", "15+ days",
       "30-59 days", "4-7 days", "500-1000", "60-89 days", "7-13 days", "8-14 days",
       "90+ days", "< 100", "> 2000", "April", "August", "Couple", "December",
       "Desktop", "Desktop Non-Package", "Desktop Package", "Desktop, Non-Package",
       "Desktop, Package", "Extended Trip", "Family", "February", "Friday", "Group",
       "January", "July", "June", "March", "May", "Mobile", "Mobile Non-Package",
       "Mobile Package", "Mobile, Non-Package", "Mobile, Package", "Monday",
       "Non-package", "November", "October", "Other", "Package", "Saturday",
       "September", "Short Break", "Single Parent", "Solo", "Solo Traveler",
       "Standard Vacation", "Sunday", "Thursday", "Tuesday", "Wednesday", "nan" >>

sort_rank(col, value) ==
    IF col = "full_segment"
    THEN LET rank(x) == CHOOSE i \in 1..Len(StrOrder) : StrOrder[i] = x
         IN  (rank(value[1]) * 100 + rank(value[2])) * 100 + rank(value[3])
    ELSE IF col \in ObjectCols THEN CHOOSE i \in 1..Len(StrOrder) : StrOrder[i] = value
    ELSE IF col \in NumberCols THEN value.v
    ELSE value

RECURSIVE sorted_keys(_, _)
sorted_keys(col, keys) ==
    IF keys = {} THEN << >>
    ELSE LET first == CHOOSE k \in keys :
                          \A other \in keys : sort_rank(col, k) <= sort_rank(col, other)
         IN  << first >> \o sorted_keys(col, keys \ {first})

\* df.dropna(subset=[col])
dropna(d, col) ==
    LET present(r) == ~isna(col, r[col]) IN SelectSeq(d, present)

RECURSIVE gcd(_, _)
gcd(a, b) == IF b = 0 THEN a ELSE gcd(b, a % b)

\* (numerator / denominator) * 100 ; 0/0 is NaN
percent_of(numerator, denominator) ==
    IF denominator = 0 THEN [num |-> 0, den |-> 0]
    ELSE LET g == gcd(numerator * 100, denominator)
         IN  [num |-> (numerator * 100) \div g, den |-> denominator \div g]

\* variant: bookings aggregated with 'count' instead of 'sum'
groupby_agg_count(d, col) ==
    LET keys == {d[i][col] : i \in {j \in 1..Len(d) : ~isna(col, d[j][col])}}
        order == sorted_keys(col, keys)
        members(k) == {i \in 1..Len(d) : ~isna(col, d[i][col]) /\ d[i][col] = k}
    IN  [n \in 1..Len(order) |->
            [ key |-> order[n],
              searches |-> Cardinality(members(order[n])),
              bookings |-> Cardinality(members(order[n])) ]]

\* variant: groupby(col, dropna=False), a missing key forms a group of its own
groupby_agg_keepna(d, col) ==
    LET keys == {d[i][col] : i \in 1..Len(d)}
        order == sorted_keys(col, keys)
        members(k) == {i \in 1..Len(d) : d[i][col] = k}
    IN  [n \in 1..Len(order) |->
            [ key |-> order[n],
              searches |-> Cardinality(members(order[n])),
              bookings |-> Cardinality({i \in members(order[n]) : d[i].is_booking = 1}) ]]

\* variant: bookings aggregated with 'max' instead of 'sum'
groupby_agg_max(d, col) ==
    LET keys == {d[i][col] : i \in {j \in 1..Len(d) : ~isna(col, d[j][col])}}
        order == sorted_keys(col, keys)
        members(k) == {i \in 1..Len(d) : ~isna(col, d[i][col]) /\ d[i][col] = k}
    IN  [n \in 1..Len(order) |->
            [ key |-> order[n],
              searches |-> Cardinality(members(order[n])),
              bookings |-> IF \E i \in members(order[n]) : d[i].is_booking = 1
                           THEN 1 ELSE 0 ]]

\* df.groupby(col).agg(searches=('is_booking','count'), bookings=('is_booking','sum'))
\*   .reset_index(): one row per non-missing key value, in sorted key order
groupby_agg(d, col) ==
    LET keys == {d[i][col] : i \in {j \in 1..Len(d) : ~isna(col, d[j][col])}}
        order == sorted_keys(col, keys)
        members(k) == {i \in 1..Len(d) : ~isna(col, d[i][col]) /\ d[i][col] = k}
    IN  [n \in 1..Len(order) |->
            [ key |-> order[n],
              searches |-> Cardinality(members(order[n])),
              bookings |-> Cardinality({i \in members(order[n]) : d[i].is_booking = 1}) ]]

\* grouped['conversion_rate'] = (grouped['bookings'] / grouped['searches']) * 100
add_conversion_rate(grouped) ==
    [n \in 1..Len(grouped) |->
        [ key |-> grouped[n].key,
          searches |-> grouped[n].searches,
          bookings |-> grouped[n].bookings,
          conversion_rate |-> percent_of(grouped[n].bookings, grouped[n].searches) ]]

calculate_conversion_rate(d, col) == add_conversion_rate(groupby_agg(d, col))

\* variant: the column is looked up only when there are rows to group
calculate_conversion_rate_raises_lazy(d, cols, col) == col \notin cols /\ Len(d) > 0

\* variant: an empty frame is rejected
calculate_conversion_rate_raises_empty(d, cols, col) == col \notin cols \/ Len(d) = 0

\* df.groupby(col) raises KeyError when col is no column of the frame
calculate_conversion_rate_raises(d, cols, col) == col \notin cols

\* the three grouped tables at the top of show_trip_characteristics_tab
duration_data(d) ==
    add_conversion_rate(groupby_agg(dropna(d, "duration_category"), "duration_category"))

window_data(d) ==
    add_conversion_rate(groupby_agg(dropna(d, "window_category"), "window_category"))

distance_data(d) ==
    add_conversion_rate(groupby_agg(dropna(d, "distance_category"), "distance_category"))

\* ---- top-N views ----
\* the floor of searches and the lengths of the top-N views
SearchFloor == 100
TopMarkets == 10
TopCountries == 10
TopSegments == 15

\* a.conversion_rate > b.conversion_rate, both defined
rate_gt(a, b) ==
    a.conversion_rate.num * b.conversion_rate.den >
        b.conversion_rate.num * a.conversion_rate.den

\* table.sort_values('conversion_rate', ascending=False): rows of equal rate
\* keep their order
RECURSIVE sort_values_desc(_)
sort_values_desc(table) ==
    IF table = << >> THEN << >>
    ELSE LET n == Len(table)
             sorted == sort_values_desc(SubSeq(table, 1, n - 1))
             ahead == Cardinality({j \in 1..(n - 1) : ~rate_gt(table[n], sorted[j])})
         IN  SubSeq(sorted, 1, ahead) \o << table[n] >> \o SubSeq(sorted, ahead + 1, n - 1)

head(table, n) == SubSeq(table, 1, IF Len(table) < n THEN Len(table) ELSE n)

\* variant: the floor excludes the groups with exactly `floor` searches
top_n_strict(table, floor, n) ==
    LET eligible(row) == row.searches > floor
    IN  head(sort_values_desc(SelectSeq(table, eligible)), n)

\* table[table['searches'] >= floor].sort_values('conversion_rate',
\*   ascending=False).head(n)
top_n(table, floor, n) ==
    LET eligible(row) == row.searches >= floor
    IN  head(sort_values_desc(SelectSeq(table, eligible)), n)

\* ---- geospatial view ----
cut_bins == << 0, 100, 500, 1000, 2000 >>
cut_labels == << "0-100", "100-500", "500-1000", "1000-2000", "2000+" >>

\* pd.cut(x, bins=[0, 100, 500, 1000, 2000, inf], labels=...): the intervals
\* are open on the left and closed on the right; a value in none is missing
cut(x) ==
    IF x.isna \/ x.v <= cut_bins[1] THEN NA
    ELSE LET n == CHOOSE i \in 1..Len(cut_bins) :
                      /\ x.v > cut_bins[i]
                      /\ (i = Len(cut_bins) \/ x.v <= cut_bins[i + 1])
         IN  cut_labels[n]

\* distance_data = df.dropna(subset=['orig_destination_distance']) with the
\* distance_bucket column added to that copy
distance_bucket_data(d) ==
    LET kept == dropna(d, "orig_destination_distance")
    IN  [i \in 1..Len(kept) |->
            [distance_bucket |-> cut(kept[i].orig_destination_distance)] @@ kept[i]]

\* groupby on a categorical column: the rows follow the order of the
\* categories; with observed=False (the default before pandas 3) every
\* category has a row, also one that no record falls in
groupby_agg_categorical(d, col, categories, observed) ==
    LET members(k) == {i \in 1..Len(d) : d[i][col] = k}
        all == [n \in 1..Len(categories) |->
                   [ key |-> categories[n],
                     searches |-> Cardinality(members(categories[n])),
                     bookings |-> Cardinality({i \in members(categories[n]) :
                                                  d[i].is_booking = 1}) ]]
        occurs(row) == row.searches > 0
    IN  IF observed THEN SelectSeq(all, occurs) ELSE all

\* distance_conv = calculate_conversion_rate(distance_data, 'distance_bucket')
distance_conv(d, observed) ==
    add_conversion_rate(
        groupby_agg_categorical(distance_bucket_data(d), "distance_bucket",
                                cut_labels, observed))

user_country_data(d) == calculate_conversion_rate(d, "user_location_country")

\* ---- key metrics and recommendations tabs ----
\* the float numerator / denominator as an exact fraction; a numpy division by
\* zero gives inf, -inf or nan, written with den = 0
fraction(numerator, denominator) ==
    IF denominator = 0
    THEN [num |-> IF numerator > 0 THEN 1 ELSE IF numerator < 0 THEN -1 ELSE 0, den |-> 0]
    ELSE LET g == gcd(IF numerator < 0 THEN -numerator ELSE numerator, denominator)
         IN  [num |-> numerator \div g, den |-> denominator \div g]

\* df[<condition>].shape[0] for the conditions the tabs use
count_rows(d, col, value) == Cardinality({i \in 1..Len(d) : d[i][col] = value})

count_booked(d, col, value) ==
    Cardinality({i \in 1..Len(d) : d[i][col] = value /\ d[i].is_booking = 1})

\* df.groupby('year_month').agg(searches, bookings, mobile_searches) with the
\* conversion_rate and mobile_percentage columns
monthly_data(d) ==
    LET grouped == calculate_conversion_rate(d, "year_month")
        mobile(k) == Cardinality({i \in 1..Len(d) :
                         ~d[i].year_month.isna /\ d[i].year_month = k /\ d[i].is_mobile = 1})
    IN  [n \in 1..Len(grouped) |->
            [ mobile_searches |-> mobile(grouped[n].key),
              mobile_percentage |-> percent_of(mobile(grouped[n].key), grouped[n].searches) ]
            @@ grouped[n]]

\* ((last_month - first_month) / first_month) * 100 on numpy floats
growth(months) ==
    LET first == months[1]
        last == months[Len(months)]
    IN  fraction((last.mobile_searches * first.searches
                    - first.mobile_searches * last.searches) * 100,
                 first.mobile_searches * last.searches)

\* show_key_metrics_tab(df): the four metrics and the monthly table; the
\* rates are divisions of Python ints
key_metrics_view(d) ==
    LET total_searches == Len(d)
        total_bookings == count_rows(d, "is_booking", 1)
    IN  IF total_searches = 0
        THEN [name |-> "key_metrics", error |-> "ZeroDivisionError", line |-> 17]
        ELSE [ name |-> "key_metrics",
               error |-> "",
               total_searches |-> total_searches,
               total_bookings |-> total_bookings,
               booking_rate |-> percent_of(total_bookings, total_searches),
               mobile_searches |-> fraction(count_rows(d, "is_mobile", 1), total_searches),
               monthly_data |-> monthly_data(d) ]

\* the statement of show_recommendations_tab that raises first, 0 if none:
\* the rates and gaps are divisions of Python numbers, iloc[0] needs a month
recommendations_raises_at(d) ==
    IF Len(d) = 0 THEN 13
    ELSE IF count_rows(d, "is_mobile", 1) = 0 THEN 18
    ELSE IF count_rows(d, "is_mobile", 0) = 0 THEN 22
    ELSE IF count_booked(d, "is_mobile", 1) = 0 THEN 24
    ELSE IF count_rows(d, "is_package", 1) = 0 THEN 29
    ELSE IF count_rows(d, "is_package", 0) = 0 THEN 33
    ELSE IF count_booked(d, "is_package", 1) = 0 THEN 35
    ELSE IF monthly_data(d) = << >> THEN 55
    ELSE 0

\* table[table[key] == value]['conversion_rate'].values[0] if value in
\* table[key].values else fallback (in hundredths of a percent)
rate_or_fallback(table, value, fallback) ==
    IF \E n \in 1..Len(table) : table[n].key = value
    THEN table[CHOOSE n \in 1..Len(table) : table[n].key = value].conversion_rate
    ELSE fraction(fallback, 100)

\* (a_rate - b_rate) / b_rate * 100 for the rates of two groups
gap(a_bookings, a_searches, b_bookings, b_searches) ==
    fraction((a_bookings * b_searches - b_bookings * a_searches) * 100,
             b_bookings * a_searches)

\* show_recommendations_tab(df)
recommendations_view(d) ==
    LET at == recommendations_raises_at(d)
    IN  IF at # 0
        THEN [ name |-> "recommendations",
               error |-> IF at = 55 THEN "IndexError" ELSE "ZeroDivisionError",
               line |-> at ]
        ELSE [ name |-> "recommendations",
               error |-> "",
               booking_rate |-> percent_of(count_rows(d, "is_booking", 1), Len(d)),
               mobile_rate |-> percent_of(count_booked(d, "is_mobile", 1),
                                          count_rows(d, "is_mobile", 1)),
               desktop_rate |-> percent_of(count_booked(d, "is_mobile", 0),
                                           count_rows(d, "is_mobile", 0)),
               mobile_gap |-> gap(count_booked(d, "is_mobile", 0),
                                  count_rows(d, "is_mobile", 0),
                                  count_booked(d, "is_mobile", 1),
                                  count_rows(d, "is_mobile", 1)),
               package_rate |-> percent_of(count_booked(d, "is_package", 1),
                                           count_rows(d, "is_package", 1)),
               nonpackage_rate |-> percent_of(count_booked(d, "is_package", 0),
                                              count_rows(d, "is_package", 0)),
               package_gap |-> gap(count_booked(d, "is_package", 0),
                                   count_rows(d, "is_package", 0),
                                   count_booked(d, "is_package", 1),
                                   count_rows(d, "is_package", 1)),
               growth |-> growth(monthly_data(d)),
               short_trip_rate |-> rate_or_fallback(duration_data(d), "1-3 days", 1000),
               channel_5_rate |->
                   rate_or_fallback(calculate_conversion_rate(d, "channel"), 5, 943),
               channel_9_rate |->
                   rate_or_fallback(calculate_conversion_rate(d, "channel"), 9, 854),
               solo_rate |->
                   rate_or_fallback(calculate_conversion_rate(d, "travel_group"),
                                    "Solo", 1223),
               single_parent_rate |->
                   rate_or_fallback(calculate_conversion_rate(d, "travel_group"),
                                    "Single Parent", 1366) ]

\* ---- user and device tab ----
\* device_data: the summary by is_mobile with the key mapped to its label
device_data(d) ==
    LET grouped == calculate_conversion_rate(d, "is_mobile")
    IN  [n \in 1..Len(grouped) |->
            [grouped[n] EXCEPT !.key = IF @ = 0 THEN "Desktop"
                                       ELSE IF @ = 1 THEN "Mobile" ELSE NA]]

package_data(d) ==
    LET grouped == calculate_conversion_rate(d, "is_package")
    IN  [n \in 1..Len(grouped) |->
            [grouped[n] EXCEPT !.key = IF @ = 0 THEN "Non-package"
                                       ELSE IF @ = 1 THEN "Package" ELSE NA]]

combined_data(d) == calculate_conversion_rate(d, "device_package")

\* table.loc[table['conversion_rate'].idxmax()] / idxmin(): the first row
\* with the highest / lowest rate
idxmax(table) ==
    CHOOSE n \in 1..Len(table) :
        /\ \A m \in 1..Len(table) : ~rate_gt(table[m], table[n])
        /\ \A m \in 1..(n - 1) : rate_gt(table[n], table[m])

idxmin(table) ==
    CHOOSE n \in 1..Len(table) :
        /\ \A m \in 1..Len(table) : ~rate_gt(table[n], table[m])
        /\ \A m \in 1..(n - 1) : rate_gt(table[m], table[n])

\* group_data with percentage_of_searches
group_data(d) ==
    LET grouped == calculate_conversion_rate(d, "travel_group")
        total == Cardinality({i \in 1..Len(d) : d[i].travel_group # NA})
    IN  [n \in 1..Len(grouped) |->
            [percentage_of_searches |-> percent_of(grouped[n].searches, total)]
            @@ grouped[n]]

\* the statement of show_user_device_tab that raises first, 0 if none:
\* .values[0] of an empty selection and .iloc[0] of an empty table raise
\* IndexError
user_device_raises_at(d) ==
    IF \A n \in 1..Len(device_data(d)) : device_data(d)[n].key # "Desktop" THEN 40
    ELSE IF \A n \in 1..Len(device_data(d)) : device_data(d)[n].key # "Mobile" THEN 41
    ELSE IF monthly_data(d) = << >> THEN 69
    ELSE 0

\* show_user_device_tab(df)
user_device_view(d) ==
    LET at == user_device_raises_at(d)
    IN  IF at # 0
        THEN [name |-> "user_device", error |-> "IndexError", line |-> at]
        ELSE [ name |-> "user_device",
               error |-> "",
               device_data |-> device_data(d),
               desktop_rate |-> rate_or_fallback(device_data(d), "Desktop", 0),
               mobile_rate |-> rate_or_fallback(device_data(d), "Mobile", 0),
               monthly_data |-> monthly_data(d),
               growth |-> growth(monthly_data(d)),
               package_data |-> package_data(d),
               combined_data |-> combined_data(d),
               best_combo |-> combined_data(d)[idxmax(combined_data(d))],
               worst_combo |-> combined_data(d)[idxmin(combined_data(d))],
               group_data |-> group_data(d) ]

\* ---- predictive model tab ----
\* the cap of the modelling sample
SampleCap == 50000

min(a, b) == IF a < b THEN a ELSE b

\* df.dropna(subset=['trip_duration', 'booking_window'])
model_population(d) == dropna(dropna(d, "trip_duration"), "booking_window")

\* the statement of show_predictive_model_tab outside its try block that
\* raises first, 0 if none: sample(n) raises ValueError when n exceeds the
\* rows left after dropna; the booking rate divides Python ints
predictive_model_raises_at(d) ==
    IF min(SampleCap, Len(d)) > Len(model_population(d)) THEN 86
    ELSE IF Len(d) = 0 THEN 91
    ELSE 0

\* without the except clause an exception of feature preparation, training or
\* prediction would leave the tab:
predictive_model_view_uncaught(d, caught) ==
    LET at == predictive_model_raises_at(d)
    IN  IF at # 0
        THEN [ name |-> "predictive_model",
               error |-> IF at = 86 THEN "ValueError" ELSE "ZeroDivisionError",
               line |-> at ]
        ELSE IF caught
        THEN [name |-> "predictive_model", error |-> "Exception", line |-> 96]
        ELSE [ name |-> "predictive_model",
               error |-> "",
               sample_size |-> min(SampleCap, Len(d)),
               booking_rate |-> percent_of(count_rows(d, "is_booking", 1), Len(d)),
               reported |-> "" ]

\* show_predictive_model_tab(df); `caught` tells whether feature preparation,
\* training or prediction raised inside the try block, which reports it and
\* returns
predictive_model_view(d, caught) ==
    LET at == predictive_model_raises_at(d)
    IN  IF at # 0
        THEN [ name |-> "predictive_model",
               error |-> IF at = 86 THEN "ValueError" ELSE "ZeroDivisionError",
               line |-> at ]
        ELSE [ name |-> "predictive_model",
               error |-> "",
               sample_size |-> min(SampleCap, Len(d)),
               booking_rate |-> percent_of(count_rows(d, "is_booking", 1), Len(d)),
               reported |-> IF caught THEN "Error in model training or prediction"
                            ELSE "" ]

\* ---- heatmaps ----
\* numerator / denominator rounded to the nearest integer, a tie to the even one
round_half_even(numerator, denominator) ==
    LET q == numerator \div denominator
        r == numerator % denominator
    IN  IF 2 * r < denominator THEN q
        ELSE IF 2 * r > denominator THEN q + 1
        ELSE IF q % 2 = 0 THEN q ELSE q + 1

\* variant: pivot_table(..., fill_value=0)
pivot_table_fill(d, index, cols, scale) ==
    LET both == {i \in 1..Len(d) : ~isna(index, d[i][index]) /\ ~isna(cols, d[i][cols])}
        rowkeys == sorted_keys(index, {d[i][index] : i \in both})
        colkeys == sorted_keys(cols, {d[i][cols] : i \in both})
        members(rk, ck) == {i \in both : d[i][index] = rk /\ d[i][cols] = ck}
        booked(rk, ck) == {i \in members(rk, ck) : d[i].is_booking = 1}
    IN  [ index |-> rowkeys,
          columns |-> colkeys,
          values |->
              [i \in 1..Len(rowkeys) |-> [j \in 1..Len(colkeys) |->
                  IF members(rowkeys[i], colkeys[j]) = {} THEN Num(0)
                  ELSE Num(round_half_even(
                           scale * 100 * Cardinality(booked(rowkeys[i], colkeys[j])),
                           Cardinality(members(rowkeys[i], colkeys[j]))))]] ]

\* d.pivot_table(index=, columns=, values='is_booking', aggfunc=).round(2):
\* the mean of is_booking per pair of keys, times `scale` (1 for 'mean', 100
\* for lambda x: 100 * x.mean()), in hundredths; a pair with no record is NaN;
\* records with a missing key are left out
pivot_table(d, index, cols, scale) ==
    LET both == {i \in 1..Len(d) : ~isna(index, d[i][index]) /\ ~isna(cols, d[i][cols])}
        rowkeys == sorted_keys(index, {d[i][index] : i \in both})
        colkeys == sorted_keys(cols, {d[i][cols] : i \in both})
        members(rk, ck) == {i \in both : d[i][index] = rk /\ d[i][cols] = ck}
        booked(rk, ck) == {i \in members(rk, ck) : d[i].is_booking = 1}
    IN  [ index |-> rowkeys,
          columns |-> colkeys,
          values |->
              [i \in 1..Len(rowkeys) |-> [j \in 1..Len(colkeys) |->
                  IF members(rowkeys[i], colkeys[j]) = {} THEN NaN
                  ELSE Num(round_half_even(
                           scale * 100 * Cardinality(booked(rowkeys[i], colkeys[j])),
                           Cardinality(members(rowkeys[i], colkeys[j]))))]] ]

\* create_conversion_heatmap(df, rows, columns, values): aggfunc='mean'
create_conversion_heatmap(d, rows, cols) == pivot_table(d, rows, cols, 1)

HeatmapOptions ==
    {"Device x Package Type", "Trip Duration x Booking Window", "Adults x Children"}

\* the two keys of each heatmap
heatmap_keys(option) ==
    IF option = "Device x Package Type" THEN << "device", "package" >>
    ELSE IF option = "Trip Duration x Booking Window"
         THEN << "duration_category", "window_category" >>
    ELSE << "srch_adults_cnt", "srch_children_cnt" >>

\* the frame each heatmap is built from: a copy with device and package
\* columns, the records with both categories present, the parties of at most
\* 4 adults and 3 children
heatmap_frame(d, option) ==
    IF option = "Device x Package Type"
    THEN [i \in 1..Len(d) |->
             [ device |-> IF d[i].is_mobile = 0 THEN "Desktop"
                          ELSE IF d[i].is_mobile = 1 THEN "Mobile" ELSE NA,
               package |-> IF d[i].is_package = 0 THEN "Non-package"
                           ELSE IF d[i].is_package = 1 THEN "Package" ELSE NA ] @@ d[i]]
    ELSE IF option = "Trip Duration x Booking Window"
    THEN dropna(dropna(d, "duration_category"), "window_category")
    ELSE LET small(r) == r.srch_adults_cnt <= 4 /\ r.srch_children_cnt <= 3
         IN  SelectSeq(d, small)

heatmap_pivot(d, option) ==
    IF option = "Trip Duration x Booking Window"
    THEN create_conversion_heatmap(heatmap_frame(d, option),
                                   heatmap_keys(option)[1], heatmap_keys(option)[2])
    ELSE pivot_table(heatmap_frame(d, option),
                     heatmap_keys(option)[1], heatmap_keys(option)[2], 100)

\* ---- customer segmentation ----
segment_device_package(is_mobile, is_package) ==
    np_select(<< is_mobile = 1 /\ is_package = 1,
                 is_mobile = 1 /\ is_package = 0,
                 is_mobile = 0 /\ is_package = 1,
                 is_mobile = 0 /\ is_package = 0 >>,
              << "Mobile Package", "Mobile Non-Package", "Desktop Package",
                 "Desktop Non-Package" >>,
              "Other")

travel_party(adults, children) ==
    np_select(<< adults = 1 /\ children = 0,
                 adults = 2 /\ children = 0,
                 adults = 1 /\ children > 0,
                 adults = 2 /\ children > 0,
                 adults > 2 >>,
              << "Solo Traveler", "Couple", "Single Parent", "Family", "Group" >>,
              "Other")

\* np.select(..., default=np.nan) with text choices: the default is the text 'nan'
trip_type(trip_duration) ==
    np_select(<< Le(trip_duration, 3), Le(trip_duration, 7), Gt(trip_duration, 7) >>,
              << "Short Break", "Standard Vacation", "Extended Trip" >>,
              nan_as_str)

\* device_package + ' - ' + travel_party + ' - ' + trip_type, kept as its
\* three parts; the text is missing when a part is
full_segment(r) ==
    << segment_device_package(r.is_mobile, r.is_package),
       travel_party(r.srch_adults_cnt, r.srch_children_cnt),
       trip_type(r.trip_duration) >>

\* segment_df = df.copy() with the segment columns, without the records whose
\* full_segment is missing
segment_frame(d) ==
    dropna([i \in 1..Len(d) |-> [full_segment |-> full_segment(d[i])] @@ d[i]],
           "full_segment")

segment_data(d) == calculate_conversion_rate(segment_frame(d), "full_segment")

\* the floor of the bubble chart
BubbleFloor == 50

bubble_data(d) ==
    LET shown(row) == row.searches >= BubbleFloor IN SelectSeq(segment_data(d), shown)

\* ---- hotel markets of the trip characteristics tab ----
market_data(d) == calculate_conversion_rate(d, "hotel_market")

\* ---- temporal view ----
day_order ==
    << "Monday", "Tuesday", "Wednesday", "Thursday", "Friday", "Saturday", "Sunday" >>

month_order ==
    << "January", "February", "March", "April", "May", "June", "July", "August",
       "September", "October", "November", "December" >>

\* .dt.hour, .dt.day_name(), .dt.month_name(); 2013-01-01 was a Tuesday
dt_hour(ts) == IF ts.isna THEN NaN ELSE Num(ts.v % 24)

dt_day_name(ts) == IF ts.isna THEN NA ELSE day_order[(((ts.v \div 24) + 1) % 7) + 1]

dt_month_name(ts) == IF ts.isna THEN NA ELSE month_order[strftime_Ym(ts).v % 100]

\* df['search_hour'] = ..., df['search_day'] = ..., df['search_month'] = ...:
\* the frame passed in, with the three columns assigned
with_temporal_columns(d) ==
    [i \in 1..Len(d) |->
        [ search_hour |-> dt_hour(d[i].date_time),
          search_day |-> dt_day_name(d[i].date_time),
          search_month |-> dt_month_name(d[i].date_time) ] @@ d[i]]

\* table[key].map({label: position}) and sort_values on it: the rows in the
\* order of the list
sort_by_order(table, order) ==
    LET listed(k) == \E n \in 1..Len(table) : table[n].key = k
        present == SelectSeq(order, listed)
    IN  [n \in 1..Len(present) |->
            table[CHOOSE m \in 1..Len(table) : table[m].key = present[n]]]

\* ---- what each sub-view of the advanced visualizations tab computes ----
geospatial_view(d, observed) ==
    [ name |-> "geospatial",
      error |-> "",
      user_country_data |-> user_country_data(d),
      top_countries |-> top_n(user_country_data(d), SearchFloor, TopCountries),
      distance_conv |-> distance_conv(d, observed) ]

\* d is the frame with the three temporal columns assigned
temporal_view(d) ==
    [ name |-> "temporal",
      error |-> "",
      hour_data |-> calculate_conversion_rate(d, "search_hour"),
      day_data |-> sort_by_order(calculate_conversion_rate(d, "search_day"), day_order),
      month_data |->
          sort_by_order(calculate_conversion_rate(d, "search_month"), month_order) ]

heatmaps_view(d, option) ==
    [ name |-> "heatmaps",
      error |-> "",
      option |-> option,
      pivot_data |-> heatmap_pivot(d, option) ]

segmentation_view(d) ==
    [ name |-> "segmentation",
      error |-> "",
      segment_data |-> segment_data(d),
      top_segments |-> top_n(segment_data(d), SearchFloor, TopSegments),
      bubble_data |-> bubble_data(d) ]

\* the tables of show_trip_characteristics_tab
trip_characteristics_tables(d) ==
    [ rendered |-> TRUE,
      duration_data |-> duration_data(d),
      window_data |-> window_data(d),
      distance_data |-> distance_data(d),
      market_data |-> market_data(d),
      top_markets |-> top_n(market_data(d), SearchFloor, TopMarkets) ]

\* ---- explored inputs ----
BaseRow ==
    [ date_time |-> DateCell(2013, 1, 1, 0),
      srch_ci |-> DateCell(2013, 1, 4, 0),
      srch_co |-> DateCell(2013, 1, 7, 0),
      srch_adults_cnt |-> 2,
      srch_children_cnt |-> 0,
      is_mobile |-> 0,
      is_package |-> 0,
      is_booking |-> 0,
      orig_destination_distance |-> Num(50),
      hotel_market |-> 1,
      user_location_country |-> 66,
      channel |-> 9 ]

\* search timestamps: midnight, noon, the next day, an empty cell, a non-date text
SearchCells ==
    {DateCell(2013, 1, 1, 0), DateCell(2013, 1, 1, 12), DateCell(2013, 1, 2, 0),
     EmptyCell, TextCell}

\* check-in / check-out dates around every threshold of the two ladders, an
\* empty cell, a non-date text and a date that does not exist
StayDates ==
    {<<1, 1>>, <<1, 2>>, <<1, 4>>, <<1, 5>>, <<1, 7>>, <<1, 8>>, <<1, 9>>, <<1, 14>>,
     <<1, 15>>, <<1, 16>>, <<1, 30>>, <<1, 31>>, <<3, 1>>, <<3, 2>>, <<3, 31>>, <<4, 1>>}

StayCells ==
    {DateCell(2013, md[1], md[2], 0) : md \in StayDates}
        \cup {EmptyCell, TextCell, DateCell(2013, 2, 30, 0)}

Distances ==
    {Num(x) : x \in {0, 99, 100, 499, 500, 999, 1000, 1999, 2000, 2001}} \cup {NaN}

\* single rows: each group of base fields varied over its whole set
SingleRows ==
    {[BaseRow EXCEPT !.date_time = t, !.srch_ci = ci, !.srch_co = co] :
        t \in SearchCells, ci \in StayCells, co \in StayCells}
    \cup {[BaseRow EXCEPT !.srch_adults_cnt = a, !.srch_children_cnt = c] :
        a \in 0..MaxAdults, c \in 0..MaxChildren}
    \cup {[BaseRow EXCEPT !.is_mobile = m, !.is_package = p, !.is_booking = b] :
        m \in {0, 1}, p \in {0, 1}, b \in {0, 1}}
    \cup {[BaseRow EXCEPT !.orig_destination_distance = x] : x \in Distances}

\* rows of the multi-row datasets
PoolRows ==
    { [BaseRow EXCEPT !.is_mobile = 1, !.is_package = 1, !.is_booking = 1,
                      !.channel = 5],
      [BaseRow EXCEPT !.is_mobile = 1, !.is_package = 1, !.srch_ci = EmptyCell,
                      !.orig_destination_distance = NaN, !.hotel_market = 2],
      [BaseRow EXCEPT !.is_booking = 1, !.srch_co = DateCell(2013, 1, 8, 0),
                      !.orig_destination_distance = Num(100)],
      [BaseRow EXCEPT !.srch_co = TextCell, !.srch_adults_cnt = 1,
                      !.user_location_country = 3],
      [BaseRow EXCEPT !.date_time = TextCell, !.is_package = 1, !.is_booking = 1],
      [BaseRow EXCEPT !.date_time = EmptyCell, !.is_mobile = 1, !.is_booking = 1,
                      !.orig_destination_distance = NaN] }

Datasets ==
    {<< r >> : r \in SingleRows}
        \cup UNION {[1..n -> PoolRows] : n \in 0..MaxRows}

GroupByCols ==
    StrCols \cup {"year_month", "trip_duration", "orig_destination_distance", "is_mobile"}

\* the files the views are rendered on: one record with one group of fields
\* varied (search time, party, flags, distance), or up to MaxViewRows records
ViewSingleRows ==
    {[BaseRow EXCEPT !.date_time = t] : t \in SearchCells}
    \cup {[BaseRow EXCEPT !.srch_adults_cnt = a, !.srch_children_cnt = c] :
        a \in 0..MaxAdults, c \in 0..MaxChildren}
    \cup {[BaseRow EXCEPT !.is_mobile = m, !.is_package = p, !.is_booking = b] :
        m \in {0, 1}, p \in {0, 1}, b \in {0, 1}}
    \cup {[BaseRow EXCEPT !.orig_destination_distance = x] : x \in Distances}

ViewDatasets ==
    {<< r >> : r \in ViewSingleRows}
    \cup UNION {[1..n -> PoolRows] : n \in 0..MaxViewRows}

\* the rows df.sample(5) of app.py asks for
SampleSize == 5

\* the files the whole app is run on: one record short of the raw-data sample,
\* or enough for it, over four kinds of record
AppPoolRows ==
    { [BaseRow EXCEPT !.is_mobile = 1, !.is_package = 1, !.is_booking = 1,
                      !.channel = 5],
      [BaseRow EXCEPT !.is_booking = 1, !.srch_co = DateCell(2013, 1, 8, 0),
                      !.orig_destination_distance = Num(100)],
      [BaseRow EXCEPT !.is_mobile = 1, !.is_package = 1, !.srch_ci = EmptyCell,
                      !.orig_destination_distance = NaN, !.hotel_market = 2],
      [BaseRow EXCEPT !.is_mobile = 1, !.srch_adults_cnt = 1] }

AppDatasets ==
    UNION {[1..n -> AppPoolRows] : n \in (SampleSize - 1)..(SampleSize + MaxExtra)}

\* grouped tables as calculate_conversion_rate returns them, for the top-N
\* views: searches and bookings of a group around the floor of 100 searches
GroupProfiles ==
    { [searches |-> 99, bookings |-> 99],
      [searches |-> 100, bookings |-> 10],
      [searches |-> 100, bookings |-> 50],
      [searches |-> 200, bookings |-> 100],
      [searches |-> 150, bookings |-> 0] }

\* up to two groups, then up to MaxFill groups of one profile, then up to one
\* more group; the keys are the positions, so the table is sorted by key
GroupSequences ==
    { first \o [n \in 1..m |-> fill] \o last :
        first \in UNION {[1..k -> GroupProfiles] : k \in 0..2},
        fill \in GroupProfiles,
        m \in 0..MaxFill,
        last \in UNION {[1..k -> GroupProfiles] : k \in 0..1} }

GroupedTable(groups) ==
    add_conversion_rate(
        [n \in 1..Len(groups) |->
            [key |-> n, searches |-> groups[n].searches, bookings |-> groups[n].bookings]])

\* the three top-N views and their lengths
TopViews == {"hotel_market", "user_location_country", "full_segment"}

top_length(kind) == IF kind = "full_segment" THEN TopSegments
                    ELSE IF kind = "hotel_market" THEN TopMarkets ELSE TopCountries

\* the keys a caller passes: columns of the frame and a name that is none
RequestedCols == GroupByCols \cup {"no_such_column"}

NoCall == [col |-> "", error |-> ""]
NoView == [name |-> ""]
NoRun == [pos |-> 0]
NoTopN == [kind |-> "", selected |-> FALSE]

NoTables == [rendered |-> FALSE, duration_data |-> << >>, window_data |-> << >>,
             distance_data |-> << >>, market_data |-> << >>, top_markets |-> << >>]

\* ---- the program ----
Init ==
    /\ csv \in Datasets
    /\ numpy_legacy \in BOOLEAN
    /\ status = "start"
    /\ df = << >>
    /\ group_by_col = ""
    /\ summary = << >>
    /\ trip_tab = NoTables
    /\ columns = {}
    /\ last_call = NoCall
    /\ view = NoView
    /\ app = NoRun
    /\ topn = NoTopN

\* app.py: df = load_data() inside try / except -> st.error, st.stop
LoadData ==
    /\ status = "start"
    /\ IF load_data_raises(csv, numpy_legacy)
       THEN status' = "error" /\ df' = << >> /\ columns' = {}
       ELSE status' = "loaded" /\ df' = load_data(csv) /\ columns' = LoadedColumns
    /\ UNCHANGED <<csv, numpy_legacy, group_by_col, summary, trip_tab, last_call,
                   view, app, topn>>

\* a view calls calculate_conversion_rate(df, col)
CalculateConversionRate ==
    /\ status = "loaded"
    /\ \E col \in RequestedCols :
          IF calculate_conversion_rate_raises(df, columns, col)
          THEN /\ last_call' = [col |-> col, error |-> "KeyError"]
               /\ UNCHANGED <<group_by_col, summary>>
          ELSE /\ last_call' = [col |-> col, error |-> ""]
               /\ group_by_col' = col
               /\ summary' = calculate_conversion_rate(df, col)
    /\ UNCHANGED <<csv, numpy_legacy, status, df, trip_tab, columns, view, app, topn>>

\* show_trip_characteristics_tab(df): the duration, window and distance tables
ShowTripCharacteristicsTab ==
    /\ status = "loaded"
    /\ trip_tab' = trip_characteristics_tables(df)
    /\ UNCHANGED <<csv, numpy_legacy, status, df, group_by_col, summary, columns,
                   last_call, view, app, topn>>

Next ==
    \/ LoadData
    \/ CalculateConversionRate
    \/ ShowTripCharacteristicsTab

Spec == Init /\ [][Next]_vars

\* ---- the top-N selection, applied to grouped tables ----
InitTopN ==
    /\ csv = << >>
    /\ numpy_legacy = TRUE
    /\ status = "start"
    /\ df = << >>
    /\ group_by_col = ""
    /\ summary = << >>
    /\ trip_tab = NoTables
    /\ columns = {}
    /\ last_call = NoCall
    /\ view = NoView
    /\ app = NoRun
    /\ \E kind \in TopViews, groups \in GroupSequences :
          topn = [kind |-> kind, table |-> GroupedTable(groups), selected |-> FALSE,
                  rows |-> << >>]

\* table[table['searches'] >= 100].sort_values(...).head(N) of one view
SelectTopN ==
    /\ topn.kind # ""
    /\ ~topn.selected
    /\ topn' = [topn EXCEPT !.selected = TRUE,
                            !.rows = top_n(topn.table, SearchFloor, top_length(topn.kind))]
    /\ UNCHANGED <<csv, numpy_legacy, status, df, group_by_col, summary, trip_tab,
                   columns, last_call, view, app>>

NextTopN == SelectTopN

SpecTopN == InitTopN /\ [][NextTopN]_vars

\* ---- the prediction simulator of the predictive-model tab ----
\* the values the widgets offer: each slider over its range, cut down to the
\* values on both sides of every threshold of the chains and the two ends
SliderAdults == 1..MaxAdults
SliderChildren == 0..MaxChildren
SliderTripDays == {1, 2, 3, 4, 7, 8, 14, 15, 30}
SliderWindowDays == {0, 6, 7, 13, 14, 29, 30, 59, 60, 89, 90, 120}
SelectBoxFlags == {0, 1}

\* if adults == 1 and children == 0: ... else: 'Other'
simulator_travel_group(adults, children) ==
    IF adults = 1 /\ children = 0 THEN "Solo"
    ELSE IF adults = 2 /\ children = 0 THEN "Couple"
    ELSE IF adults = 1 /\ children > 0 THEN "Single Parent"
    ELSE IF adults = 2 /\ children > 0 THEN "Family"
    ELSE IF adults > 2 THEN "Group"
    ELSE "Other"

\* variant: first bound strict (< 3)
simulator_duration_strict(trip_days) ==
    IF trip_days < 3 THEN "1-3 days"
    ELSE IF trip_days <= 7 THEN "4-7 days"
    ELSE IF trip_days <= 14 THEN "8-14 days"
    ELSE "15+ days"

\* if trip_days <= 3: ... else: '15+ days'
simulator_duration(trip_days) ==
    IF trip_days <= 3 THEN "1-3 days"
    ELSE IF trip_days <= 7 THEN "4-7 days"
    ELSE IF trip_days <= 14 THEN "8-14 days"
    ELSE "15+ days"

\* if booking_window_days < 7: ... else: '90+ days'
simulator_window(booking_window_days) ==
    IF booking_window_days < 7 THEN "0-6 days"
    ELSE IF booking_window_days < 14 THEN "7-13 days"
    ELSE IF booking_window_days < 30 THEN "14-29 days"
    ELSE IF booking_window_days < 60 THEN "30-59 days"
    ELSE IF booking_window_days < 90 THEN "60-89 days"
    ELSE "90+ days"

\* f'{device}, {package}'
simulator_device_package(is_mobile, is_package) ==
    LET device == IF is_mobile = 1 THEN "Mobile" ELSE "Desktop"
        package == IF is_package = 1 THEN "Package" ELSE "Non-Package"
    IN  str_join(device, package)

\* the widgets hold one choice each
InitSimulator ==
    /\ csv = << >>
    /\ numpy_legacy = TRUE
    /\ status = "start"
    /\ df = << >>
    /\ group_by_col = ""
    /\ summary = << >>
    /\ trip_tab = NoTables
    /\ columns = {}
    /\ last_call = NoCall
    /\ app = NoRun
    /\ topn = NoTopN
    /\ \E is_mobile \in SelectBoxFlags, is_package \in SelectBoxFlags,
          adults \in SliderAdults, children \in SliderChildren,
          trip_days \in SliderTripDays, booking_window_days \in SliderWindowDays :
          view = [name |-> "simulator", predicted |-> FALSE,
                  is_mobile |-> is_mobile, is_package |-> is_package,
                  adults |-> adults, children |-> children,
                  trip_days |-> trip_days,
                  booking_window_days |-> booking_window_days]

\* the simulator derives the four labels whose dummy columns it sets to 1
SimulatePrediction ==
    /\ view.name = "simulator"
    /\ ~view.predicted
    /\ view' = [name |-> "simulator", predicted |-> TRUE,
                is_mobile |-> view.is_mobile, is_package |-> view.is_package,
                adults |-> view.adults, children |-> view.children,
                trip_days |-> view.trip_days,
                booking_window_days |-> view.booking_window_days,
                travel_group |-> simulator_travel_group(view.adults, view.children),
                duration |-> simulator_duration(view.trip_days),
                window |-> simulator_window(view.booking_window_days),
                device_package |->
                    simulator_device_package(view.is_mobile, view.is_package)]
    /\ UNCHANGED <<csv, numpy_legacy, status, df, columns, group_by_col, summary,
                   trip_tab, last_call, app, topn>>

NextSimulator == SimulatePrediction

SpecSimulator == InitSimulator /\ [][NextSimulator]_vars

\* ---- the view functions, each applied to the loaded frame ----
InitViews ==
    /\ csv \in ViewDatasets
    /\ numpy_legacy \in BOOLEAN
    /\ status = "start"
    /\ df = << >>
    /\ group_by_col = ""
    /\ summary = << >>
    /\ trip_tab = NoTables
    /\ columns = {}
    /\ last_call = NoCall
    /\ view = NoView
    /\ app = NoRun
    /\ topn = NoTopN

\* show_geospatial_analysis(df); the default of groupby's `observed` depends
\* on the pandas that is installed
ShowGeospatialAnalysis ==
    /\ status = "loaded"
    /\ \E observed \in BOOLEAN : view' = geospatial_view(df, observed)
    /\ UNCHANGED <<csv, numpy_legacy, status, df, columns, group_by_col, summary,
                   trip_tab, last_call, app, topn>>

\* show_temporal_patterns(df): assigns three columns to the frame it is given
\* and groups by each
ShowTemporalPatterns ==
    /\ status = "loaded"
    /\ df' = with_temporal_columns(df)
    /\ columns' = columns \cup TemporalCols
    /\ view' = temporal_view(df')
    /\ UNCHANGED <<csv, numpy_legacy, status, group_by_col, summary, trip_tab,
                   last_call, app, topn>>

\* show_conversion_heatmaps(df) with the option picked in the radio
ShowConversionHeatmaps ==
    /\ status = "loaded"
    /\ \E option \in HeatmapOptions : view' = heatmaps_view(df, option)
    /\ UNCHANGED <<csv, numpy_legacy, status, df, columns, group_by_col, summary,
                   trip_tab, last_call, app, topn>>

\* show_key_metrics_tab(df)
ShowKeyMetricsTab ==
    /\ status = "loaded"
    /\ view' = key_metrics_view(df)
    /\ UNCHANGED <<csv, numpy_legacy, status, df, columns, group_by_col, summary,
                   trip_tab, last_call, app, topn>>

\* show_recommendations_tab(df)
ShowRecommendationsTab ==
    /\ status = "loaded"
    /\ view' = recommendations_view(df)
    /\ UNCHANGED <<csv, numpy_legacy, status, df, columns, group_by_col, summary,
                   trip_tab, last_call, app, topn>>

\* show_customer_segmentation(df): works on a copy of the frame
ShowCustomerSegmentation ==
    /\ status = "loaded"
    /\ view' = segmentation_view(df)
    /\ UNCHANGED <<csv, numpy_legacy, status, df, columns, group_by_col, summary,
                   trip_tab, last_call, app, topn>>

\* show_user_device_tab(df)
ShowUserDeviceTab ==
    /\ status = "loaded"
    /\ view' = user_device_view(df)
    /\ UNCHANGED <<csv, numpy_legacy, status, df, columns, group_by_col, summary,
                   trip_tab, last_call, app, topn>>

\* show_predictive_model_tab(df)
ShowPredictiveModelTab ==
    /\ status = "loaded"
    /\ \E caught \in BOOLEAN : view' = predictive_model_view(df, caught)
    /\ UNCHANGED <<csv, numpy_legacy, status, df, columns, group_by_col, summary,
                   trip_tab, last_call, app, topn>>

\* calculate_conversion_rate(df, group_by_col) seen from its caller: the frame
\* that was passed in, once the call has returned.  A body that assigned the
\* rate column to df instead of to the grouped frame would leave this behind:
calculate_conversion_rate_frame_inplace(d, col) ==
    [i \in 1..Len(d) |->
        [f \in DOMAIN d[i] \cup {"conversion_rate"} |->
            IF f = "conversion_rate" THEN percent_of(d[i].is_booking, 1)
            ELSE d[i][f]]]

\* the body only reads df (groupby builds a new frame, and the rate column is
\* assigned to that new frame)
calculate_conversion_rate_frame(d, col) == d



\* a view calls calculate_conversion_rate(df, col); the view keeps what the
\* call before it returned when that call had the same frame and the same key
CallCalculateConversionRate ==
    /\ status = "loaded"
    /\ \E col \in GroupByCols :
          /\ ~calculate_conversion_rate_raises(df, columns, col)
          /\ view' = [name |-> "calculate_conversion_rate",
                      col |-> col,
                      result |-> calculate_conversion_rate(df, col),
                      previous |-> IF /\ view.name = "calculate_conversion_rate"
                                      /\ view.col = col
                                   THEN <<view.result>>
                                   ELSE << >>]
          /\ df' = calculate_conversion_rate_frame(df, col)
    /\ UNCHANGED <<csv, numpy_legacy, status, columns, group_by_col, summary,
                   trip_tab, last_call, app, topn>>

NextViews ==
    \/ LoadData
    \/ CallCalculateConversionRate
    \/ ShowUserDeviceTab
    \/ ShowPredictiveModelTab
    \/ ShowCustomerSegmentation
    \/ ShowKeyMetricsTab
    \/ ShowRecommendationsTab
    \/ ShowGeospatialAnalysis
    \/ ShowConversionHeatmaps
    \/ ShowTemporalPatterns

SpecViews == InitViews /\ [][NextViews]_vars

\* ---- one run of the app.py script ----
Tabs ==
    << "key_metrics", "user_device", "trip_characteristics", "predictive_model",
       "recommendations", "advanced_visualizations" >>

VizTypes ==
    {"Conversion Heatmaps", "Geospatial Analysis", "Temporal Patterns",
     "Customer Segmentation"}

NoError == [at |-> "", error |-> ""]

InitApp ==
    /\ csv \in AppDatasets
    /\ numpy_legacy \in BOOLEAN
    /\ status = "start"
    /\ df = << >>
    /\ group_by_col = ""
    /\ summary = << >>
    /\ trip_tab = NoTables
    /\ columns = {}
    /\ last_call = NoCall
    /\ view = NoView
    /\ app = [pc |-> "load", rendered |-> << >>, raised |-> NoError, reported |-> "",
              run |-> 1, cache |-> << >>, body_runs |-> 0, first |-> << >>,
              written |-> FALSE]
    /\ topn = NoTopN

\* @st.cache_data keeps the return value of load_data() serialised and hands
\* every caller a fresh copy, so what a run writes to its frame never reaches
\* the entry.  A cache that handed out the stored object itself would hold
\* whatever the run wrote:
cache_after_write_shared(cache, frame, cols) ==
    IF cache = << >> THEN cache ELSE << [frame |-> frame, columns |-> cols] >>

\* the entry of load_data in the st.cache_data store after a run has written
\* to the frame it was handed
cache_after_write(cache, frame, cols) == cache

\* try: df = load_data() ... except: st.error(...); st.stop()
\* load_data is wrapped by @st.cache_data: a hit returns the stored result and
\* skips the body; a miss runs the body and stores what it returns, and a body
\* that raises stores nothing
RunLoadData ==
    /\ app.pc = "load"
    /\ IF app.cache # << >>
       THEN /\ status' = "loaded"
            /\ df' = app.cache[1].frame
            /\ columns' = app.cache[1].columns
            /\ app' = [app EXCEPT !.pc = "sample"]
       ELSE IF load_data_raises(csv, numpy_legacy)
       THEN /\ status' = "error" /\ df' = << >> /\ columns' = {}
            /\ app' = [app EXCEPT !.pc = "stopped", !.reported = "Error loading data",
                                  !.body_runs = @ + 1]
       ELSE /\ status' = "loaded" /\ df' = load_data(csv) /\ columns' = LoadedColumns
            /\ app' = [app EXCEPT !.pc = "sample", !.body_runs = @ + 1,
                                  !.cache = << [frame |-> df', columns |-> columns'] >>,
                                  !.first = << [frame |-> df', columns |-> columns'] >>]
    /\ UNCHANGED <<csv, numpy_legacy, group_by_col, summary, trip_tab, last_call,
                   view, topn>>

\* a widget interaction or a page reload once the run has ended: Streamlit
\* executes app.py from the top again in the same process, with the store of
\* st.cache_data kept
Rerun ==
    /\ app.pc \in {"done", "failed", "stopped"}
    /\ app.run < MaxRuns
    /\ app' = [app EXCEPT !.pc = "load", !.rendered = << >>, !.raised = NoError,
                          !.reported = "", !.run = @ + 1]
    /\ status' = "start"
    /\ df' = << >>
    /\ columns' = {}
    /\ trip_tab' = NoTables
    /\ view' = NoView
    /\ UNCHANGED <<csv, numpy_legacy, group_by_col, summary, last_call, topn>>

\* st.dataframe(df.sample(5)): sample raises ValueError on fewer than 5 rows;
\* an exception outside a try block ends the run
RunSample ==
    /\ app.pc = "sample"
    /\ app' = IF Len(df) < SampleSize
              THEN [app EXCEPT !.pc = "failed",
                               !.raised = [at |-> "sample", error |-> "ValueError"]]
              ELSE [app EXCEPT !.pc = Tabs[1]]
    /\ UNCHANGED <<csv, numpy_legacy, status, df, columns, group_by_col, summary,
                   trip_tab, last_call, view, topn>>

\* the run after the call of tab number k returned the view v or raised
after_tab(k, v) ==
    IF v.error # ""
    THEN [app EXCEPT !.pc = "failed", !.raised = [at |-> Tabs[k], error |-> v.error]]
    ELSE [app EXCEPT !.pc = IF k = Len(Tabs) THEN "done" ELSE Tabs[k + 1],
                     !.rendered = Append(@, Tabs[k])]

\* with tab1: show_key_metrics_tab(df)
RunKeyMetricsTab ==
    /\ app.pc = Tabs[1]
    /\ view' = key_metrics_view(df)
    /\ app' = after_tab(1, view')
    /\ UNCHANGED <<csv, numpy_legacy, status, df, columns, group_by_col, summary,
                   trip_tab, last_call, topn>>

\* with tab2: show_user_device_tab(df)
RunUserDeviceTab ==
    /\ app.pc = Tabs[2]
    /\ view' = user_device_view(df)
    /\ app' = after_tab(2, view')
    /\ UNCHANGED <<csv, numpy_legacy, status, df, columns, group_by_col, summary,
                   trip_tab, last_call, topn>>

\* with tab3: show_trip_characteristics_tab(df)
RunTripCharacteristicsTab ==
    /\ app.pc = Tabs[3]
    /\ trip_tab' = trip_characteristics_tables(df)
    /\ view' = [name |-> "trip_characteristics", error |-> ""]
    /\ app' = after_tab(3, view')
    /\ UNCHANGED <<csv, numpy_legacy, status, df, columns, group_by_col, summary,
                   last_call, topn>>

\* with tab4: show_predictive_model_tab(df)
RunPredictiveModelTab ==
    /\ app.pc = Tabs[4]
    /\ \E caught \in BOOLEAN : view' = predictive_model_view(df, caught)
    /\ app' = after_tab(4, view')
    /\ UNCHANGED <<csv, numpy_legacy, status, df, columns, group_by_col, summary,
                   trip_tab, last_call, topn>>

\* with tab5: show_recommendations_tab(df)
RunRecommendationsTab ==
    /\ app.pc = Tabs[5]
    /\ view' = recommendations_view(df)
    /\ app' = after_tab(5, view')
    /\ UNCHANGED <<csv, numpy_legacy, status, df, columns, group_by_col, summary,
                   trip_tab, last_call, topn>>

\* with tab6: show_advanced_visualizations_tab(df) with the sub-view picked
\* in the select box
RunAdvancedVisualizationsTab ==
    /\ app.pc = Tabs[6]
    /\ \E viz_type \in VizTypes :
          IF viz_type = "Temporal Patterns"
          THEN /\ df' = with_temporal_columns(df)
               /\ columns' = columns \cup TemporalCols
               /\ view' = temporal_view(df')
               /\ app' = [after_tab(6, view') EXCEPT
                             !.cache = cache_after_write(@, df', columns'),
                             !.written = TRUE]
          ELSE /\ UNCHANGED <<df, columns>>
               /\ IF viz_type = "Conversion Heatmaps"
                  THEN \E option \in HeatmapOptions : view' = heatmaps_view(df, option)
                  ELSE IF viz_type = "Geospatial Analysis"
                  THEN \E observed \in BOOLEAN : view' = geospatial_view(df, observed)
                  ELSE view' = segmentation_view(df)
               /\ app' = after_tab(6, view')
    /\ UNCHANGED <<csv, numpy_legacy, status, group_by_col, summary, trip_tab,
                   last_call, topn>>

NextApp ==
    \/ RunLoadData
    \/ Rerun
    \/ RunSample
    \/ RunKeyMetricsTab
    \/ RunUserDeviceTab
    \/ RunTripCharacteristicsTab
    \/ RunPredictiveModelTab
    \/ RunRecommendationsTab
    \/ RunAdvancedVisualizationsTab

SpecApp == InitApp /\ [][NextApp]_vars

\* ---- properties ----
Range(seq) == {seq[n] : n \in 1..Len(seq)}

Loaded == status = "loaded"
Rows == 1..Len(df)

TravelLabels == {"Solo", "Couple", "Single Parent", "Family", "Group", "Other"}
DurationLabels == {"1-3 days", "4-7 days", "8-14 days", "15+ days"}
WindowLabels == {"0-6 days", "7-13 days", "14-29 days", "30-59 days", "60-89 days", "90+ days"}
DistanceLabels == {"< 100", "100-500", "500-1000", "1000-2000", "> 2000"}
DeviceLabels == {"Mobile, Package", "Mobile, Non-Package", "Desktop, Package",
                 "Desktop, Non-Package"}

RECURSIVE TotalSearches(_)
TotalSearches(table) ==
    IF table = << >> THEN 0 ELSE Head(table).searches + TotalSearches(Tail(table))

C1_Scenario ==
    /\ group_by_col = "device_package"
    /\ Len(df) = 4
    /\ Cardinality({i \in Rows : df[i].device_package = "Mobile, Package"}) = 2
    /\ Cardinality({i \in Rows : df[i].device_package = "Mobile, Package"
                                    /\ df[i].is_booking = 1}) = 1
    /\ Cardinality({i \in Rows : df[i].device_package = "Desktop, Non-Package"
                                    /\ df[i].is_booking = 1}) = 2

C1_ScenarioRows ==
    { [key |-> "Mobile, Package", searches |-> 2, bookings |-> 1,
       conversion_rate |-> [num |-> 50, den |-> 1]],
      [key |-> "Desktop, Non-Package", searches |-> 2, bookings |-> 2,
       conversion_rate |-> [num |-> 100, den |-> 1]] }

\* C1: after calculate_conversion_rate(df, col) the summary has one row per
\* distinct (non-missing) value of the column; the row's searches is the number
\* of records with that value, its bookings the number of those with
\* is_booking = 1, its conversion_rate is 100 * bookings / searches; and two
\* 'Mobile, Package' records (one booked) with two 'Desktop, Non-Package'
\* records (both booked) give (2, 1, 50) and (2, 2, 100).
C1_SummaryRows ==
    group_by_col # "" =>
        LET present == {i \in Rows : ~isna(group_by_col, df[i][group_by_col])}
            values == {df[i][group_by_col] : i \in present}
        IN  /\ Len(summary) = Cardinality(values)
            /\ {summary[n].key : n \in 1..Len(summary)} = values
            /\ \A n \in 1..Len(summary) :
                  LET group == {i \in present : df[i][group_by_col] = summary[n].key}
                      rate == summary[n].conversion_rate
                  IN  /\ summary[n].searches = Cardinality(group)
                      /\ summary[n].bookings =
                            Cardinality({i \in group : df[i].is_booking = 1})
                      /\ rate.den > 0
                      /\ rate.num * summary[n].searches = 100 * summary[n].bookings * rate.den
            /\ C1_Scenario =>
                  {summary[n] : n \in 1..Len(summary)} = C1_ScenarioRows

C1_Witness ==
    /\ C1_Scenario
    /\ {summary[n] : n \in 1..Len(summary)} = C1_ScenarioRows

\* C2: every loaded record carries exactly the travel_group label of the first
\* matching rule (Solo, Couple, Single Parent, Family, Group, else Other), and
\* at most one of the five rule conditions holds for its (adults, children).
C2_TravelGroup ==
    Loaded =>
        \A i \in Rows :
            LET a == df[i].srch_adults_cnt
                c == df[i].srch_children_cnt
                conds == travel_group_conditions(a, c)
                expected == IF a = 1 /\ c = 0 THEN "Solo"
                            ELSE IF a = 2 /\ c = 0 THEN "Couple"
                            ELSE IF a = 1 /\ c > 0 THEN "Single Parent"
                            ELSE IF a = 2 /\ c > 0 THEN "Family"
                            ELSE IF a > 2 THEN "Group"
                            ELSE "Other"
            IN  /\ df[i].travel_group = expected
                /\ df[i].travel_group \in TravelLabels
                /\ Cardinality({k \in 1..Len(conds) : conds[k]}) <= 1

C2_Witness ==
    /\ Loaded
    /\ \E i \in Rows : /\ df[i].srch_adults_cnt = 2
                       /\ df[i].srch_children_cnt > 0
                       /\ df[i].travel_group = "Family"

\* C3 (as claimed): a record whose checkIn or checkOut is missing or unparseable
\* has a missing duration_category, one whose checkIn is missing a missing
\* window_category, one whose distance is missing a missing distance_category.
C3_UndefinedIsMissing ==
    Loaded =>
        \A i \in Rows :
            /\ (df[i].srch_ci.isna \/ df[i].srch_co.isna) => df[i].duration_category = NA
            /\ df[i].srch_ci.isna => df[i].window_category = NA
            /\ df[i].orig_destination_distance.isna => df[i].distance_category = NA

C4_Defined(col) ==
    IF col = "duration_category" THEN {i \in Rows : ~df[i].trip_duration.isna}
    ELSE IF col = "window_category" THEN {i \in Rows : ~df[i].booking_window.isna}
    ELSE {i \in Rows : ~df[i].orig_destination_distance.isna}

C4_Excludes(table, col, labels) ==
    /\ \A n \in 1..Len(table) : table[n].key \in labels
    /\ TotalSearches(table) = Cardinality(C4_Defined(col))

\* C4 (as claimed): the duration, window and distance tables, and a summary
\* grouped by one of the three category columns, hold no row for records whose
\* underlying value is undefined: every key is a label of the ladder and the
\* searches add up to the number of records with the value defined.
C4_UndefinedExcluded ==
    /\ trip_tab.rendered =>
          /\ C4_Excludes(trip_tab.duration_data, "duration_category", DurationLabels)
          /\ C4_Excludes(trip_tab.window_data, "window_category", WindowLabels)
          /\ C4_Excludes(trip_tab.distance_data, "distance_category", DistanceLabels)
    /\ group_by_col = "duration_category" =>
          C4_Excludes(summary, "duration_category", DurationLabels)
    /\ group_by_col = "window_category" =>
          C4_Excludes(summary, "window_category", WindowLabels)
    /\ group_by_col = "distance_category" =>
          C4_Excludes(summary, "distance_category", DistanceLabels)

C5_Unparseable(cell) == cell.kind # "empty" /\ ~Parseable(cell)

\* C5 (as claimed): with an unparseable date_time, srch_ci or srch_co in some
\* record the load still completes and keeps every record, and that record's
\* date-dependent derived fields are undefined (the numbers are missing and the
\* categories carry no label of their ladder).
C5_MalformedTolerated ==
    (status # "start" /\ numpy_legacy
        /\ \E i \in 1..Len(csv) : \/ C5_Unparseable(csv[i].date_time)
                                  \/ C5_Unparseable(csv[i].srch_ci)
                                  \/ C5_Unparseable(csv[i].srch_co))
    => /\ Loaded
       /\ Len(df) = Len(csv)
       /\ \A i \in Rows :
             /\ C5_Unparseable(csv[i].date_time) =>
                   /\ df[i].year_month.isna
                   /\ df[i].booking_window.isna
                   /\ df[i].window_category \notin WindowLabels
             /\ C5_Unparseable(csv[i].srch_ci) =>
                   /\ df[i].trip_duration.isna
                   /\ df[i].booking_window.isna
                   /\ df[i].duration_category \notin DurationLabels
                   /\ df[i].window_category \notin WindowLabels
             /\ C5_Unparseable(csv[i].srch_co) =>
                   /\ df[i].trip_duration.isna
                   /\ df[i].duration_category \notin DurationLabels

\* C6: a loaded record with check-in and check-out both present has
\* trip_duration = whole days from check-in to check-out and the
\* duration_category of the first matching bound: <= 3 '1-3 days', <= 7
\* '4-7 days', <= 14 '8-14 days', else '15+ days' (3 -> '1-3 days',
\* 4 -> '4-7 days').
C6_DurationLadder ==
    Loaded =>
        \A i \in Rows :
            (~df[i].srch_ci.isna /\ ~df[i].srch_co.isna) =>
                LET days == df[i].trip_duration.v
                IN  /\ ~df[i].trip_duration.isna
                    /\ days * 24 <= df[i].srch_co.v - df[i].srch_ci.v
                    /\ df[i].srch_co.v - df[i].srch_ci.v < (days + 1) * 24
                    /\ df[i].duration_category \in DurationLabels
                    /\ df[i].duration_category =
                          IF days <= 3 THEN "1-3 days"
                          ELSE IF days <= 7 THEN "4-7 days"
                          ELSE IF days <= 14 THEN "8-14 days"
                          ELSE "15+ days"
                    /\ days = 3 => df[i].duration_category = "1-3 days"
                    /\ days = 4 => df[i].duration_category = "4-7 days"

C6_Witness ==
    /\ Loaded
    /\ \E i, j \in Rows :
          /\ df[i].trip_duration = Num(3) /\ df[i].duration_category = "1-3 days"
          /\ df[j].trip_duration = Num(4) /\ df[j].duration_category = "4-7 days"

\* C7: a loaded record with booking_window defined has the window_category of
\* the first matching strict bound: < 7 '0-6 days', < 14 '7-13 days', < 30
\* '14-29 days', < 60 '30-59 days', < 90 '60-89 days', else '90+ days'.
C7_WindowLadder ==
    Loaded =>
        \A i \in Rows :
            ~df[i].booking_window.isna =>
                LET days == df[i].booking_window.v
                IN  /\ df[i].window_category \in WindowLabels
                    /\ df[i].window_category =
                          IF days < 7 THEN "0-6 days"
                          ELSE IF days < 14 THEN "7-13 days"
                          ELSE IF days < 30 THEN "14-29 days"
                          ELSE IF days < 60 THEN "30-59 days"
                          ELSE IF days < 90 THEN "60-89 days"
                          ELSE "90+ days"

C7_Witness ==
    /\ Loaded
    /\ \E i \in Rows :
          /\ df[i].booking_window = Num(7)
          /\ df[i].window_category = "7-13 days"

\* C8: a loaded record with a distance present has the distance_category of the
\* first matching bound: < 100 '< 100', < 500 '100-500', < 1000 '500-1000',
\* < 2000 '1000-2000', else '> 2000'.
C8_DistanceLadder ==
    Loaded =>
        \A i \in Rows :
            ~df[i].orig_destination_distance.isna =>
                LET x == df[i].orig_destination_distance.v
                IN  /\ df[i].distance_category \in DistanceLabels
                    /\ df[i].distance_category =
                          IF x < 100 THEN "< 100"
                          ELSE IF x < 500 THEN "100-500"
                          ELSE IF x < 1000 THEN "500-1000"
                          ELSE IF x < 2000 THEN "1000-2000"
                          ELSE "> 2000"

C8_Witness ==
    /\ Loaded
    /\ \E i \in Rows :
          /\ df[i].orig_destination_distance = Num(2000)
          /\ df[i].distance_category = "> 2000"

\* C9: every loaded record (flags 0/1) has a device_package that is one of the
\* four strings, Mobile exactly when is_mobile = 1 and Package exactly when
\* is_package = 1.
C9_DevicePackage ==
    Loaded =>
        \A i \in Rows :
            /\ df[i].device_package \in DeviceLabels
            /\ df[i].device_package \in {"Mobile, Package", "Mobile, Non-Package"}
                  <=> df[i].is_mobile = 1
            /\ df[i].device_package \in {"Mobile, Package", "Desktop, Package"}
                  <=> df[i].is_package = 1

C9_Witness ==
    /\ Loaded
    /\ \E i \in Rows :
          /\ df[i].is_mobile = 1
          /\ df[i].is_package = 0
          /\ df[i].device_package = "Mobile, Non-Package"

\* C10: after calculate_conversion_rate(df, col) the searches of the summary
\* rows add up to the number of records whose value in the column is not
\* missing.
C10_SearchesSum ==
    group_by_col # "" =>
        TotalSearches(summary) =
            Cardinality({i \in Rows : ~isna(group_by_col, df[i][group_by_col])})

C10_Witness ==
    /\ group_by_col = "trip_duration"
    /\ \E i, j \in Rows : df[i].trip_duration.isna /\ ~df[j].trip_duration.isna
    /\ TotalSearches(summary) = Cardinality({i \in Rows : ~df[i].trip_duration.isna})
    /\ TotalSearches(summary) < Len(df)

RECURSIVE TotalBookings(_)
TotalBookings(table) ==
    IF table = << >> THEN 0 ELSE Head(table).bookings + TotalBookings(Tail(table))

Booked == {i \in Rows : df[i].is_booking = 1}

\* C11 as stated: whenever the summary has rows, their bookings add up to the
\* number of booked records of the input, records with a missing key included.
C11_BookingsSumAll ==
    (group_by_col # "" /\ summary # << >>) =>
        TotalBookings(summary) = Cardinality(Booked)

\* C11 amended: the bookings of the summary rows add up to the number of booked
\* records whose value in the grouping column is not missing.
C11_BookingsSum ==
    group_by_col # "" =>
        TotalBookings(summary) =
            Cardinality({i \in Booked : ~isna(group_by_col, df[i][group_by_col])})

C11_Witness ==
    /\ group_by_col # ""
    /\ summary # << >>
    /\ \E i \in Booked : isna(group_by_col, df[i][group_by_col])
    /\ \E i, j \in Booked :
          /\ i # j
          /\ ~isna(group_by_col, df[i][group_by_col])
          /\ df[i][group_by_col] = df[j][group_by_col]
    /\ TotalBookings(summary) < Cardinality(Booked)

\* C16: calculate_conversion_rate on a frame without rows raises nothing and
\* returns a summary without rows.
C16_EmptyInEmptyOut ==
    (Loaded /\ Len(df) = 0 /\ last_call.col \in columns) =>
        /\ last_call.error = ""
        /\ group_by_col = last_call.col
        /\ summary = << >>

C16_Witness ==
    /\ Loaded
    /\ Len(df) = 0
    /\ last_call.col \in columns
    /\ last_call.error = ""
    /\ Len(summary) = 0

\* C17: calculate_conversion_rate with a key that is no column of the frame
\* raises KeyError; no summary, empty or not, is returned for that key.
C17_MissingKeyRaises ==
    (last_call.col # "" /\ last_call.col \notin columns) =>
        /\ last_call.error = "KeyError"
        /\ group_by_col # last_call.col

C17_Witness ==
    /\ Loaded
    /\ Len(df) = 0
    /\ last_call.col = "no_such_column"
    /\ last_call.error = "KeyError"

\* C12: no row of a conversion summary has zero searches, the summaries of
\* the geospatial view (by user country, by distance bucket) included.
C12_NoEmptyGroup ==
    view.name = "geospatial" =>
        /\ \A n \in 1..Len(view.user_country_data) :
              view.user_country_data[n].searches >= 1
        /\ \A n \in 1..Len(view.distance_conv) :
              view.distance_conv[n].searches >= 1

\* C13: no view changes the frame it is handed: once loaded, the frame has the
\* columns and the values load_data returned, whatever views were rendered.
C13_FrameUnchanged ==
    Loaded => (columns = LoadedColumns /\ df = load_data(csv))

\* the pair of heatmap keys of a record of the loaded frame
PairOf(option, r) ==
    IF option = "Device x Package Type"
    THEN << IF r.is_mobile = 1 THEN "Mobile" ELSE "Desktop",
            IF r.is_package = 1 THEN "Package" ELSE "Non-package" >>
    ELSE IF option = "Trip Duration x Booking Window"
    THEN << r.duration_category, r.window_category >>
    ELSE << r.srch_adults_cnt, r.srch_children_cnt >>

PairRecords(option, rk, ck) == {i \in Rows : PairOf(option, df[i]) = << rk, ck >>}

Cells(p) == {<< i, j >> : i \in 1..Len(p.index), j \in 1..Len(p.columns)}

\* C18: every defined cell of a heatmap is the conversion rate in percent of
\* the records with that pair of keys, 100 * bookings / searches (to the two
\* decimals the pivot is rounded to), in each of the three heatmaps.
C18_CellsInPercent ==
    view.name = "heatmaps" =>
        \A c \in Cells(view.pivot_data) :
            LET cell == view.pivot_data.values[c[1]][c[2]]
                recs == PairRecords(view.option, view.pivot_data.index[c[1]],
                                    view.pivot_data.columns[c[2]])
            IN  ~cell.isna =>
                    /\ recs # {}
                    /\ cell.v = round_half_even(
                                    10000 * Cardinality(recs \cap Booked),
                                    Cardinality(recs))

\* C19: a heatmap cell whose pair of keys occurs in no record is missing, not
\* zero, and every row key and every column key of the matrix occurs with some
\* key of the other side in the data.
C19_AbsentPairsUndefined ==
    view.name = "heatmaps" =>
        LET p == view.pivot_data
        IN  /\ \A c \in Cells(p) :
                  PairRecords(view.option, p.index[c[1]], p.columns[c[2]]) = {}
                      => p.values[c[1]][c[2]].isna
            /\ \A i \in 1..Len(p.index) :
                  \E j \in 1..Len(p.columns) :
                      PairRecords(view.option, p.index[i], p.columns[j]) # {}
            /\ \A j \in 1..Len(p.columns) :
                  \E i \in 1..Len(p.index) :
                      PairRecords(view.option, p.index[i], p.columns[j]) # {}

C19_Witness ==
    /\ view.name = "heatmaps"
    /\ Len(view.pivot_data.index) >= 2
    /\ Len(view.pivot_data.columns) >= 2
    /\ \E c \in Cells(view.pivot_data) :
          /\ view.pivot_data.values[c[1]][c[2]].isna
          /\ PairRecords(view.option, view.pivot_data.index[c[1]],
                         view.pivot_data.columns[c[2]]) = {}
    /\ \E c \in Cells(view.pivot_data) : ~view.pivot_data.values[c[1]][c[2]].isna

\* some partition the tabs compute a rate over has no record
ZeroPartition ==
    \/ Len(df) = 0
    \/ \E v \in {0, 1} : \A i \in Rows : df[i].is_mobile # v
    \/ \E v \in {0, 1} : \A i \in Rows : df[i].is_package # v

\* C15: a rate over a partition without records (no records at all, no mobile
\* or no package searches) gives an undefined rate, never a division-by-zero
\* fault, in the key metrics and the recommendations tabs.
C15_NoDivisionFault ==
    (view.name \in {"key_metrics", "recommendations"} /\ ZeroPartition) =>
        view.error # "ZeroDivisionError"

\* a's conversion rate is higher than b's
HigherRate(a, b) == a.bookings * b.searches > b.bookings * a.searches

\* C20: a top-N view lists only groups of the table with at least 100
\* searches, in non-increasing order of conversion rate, at most N of them
\* (10 markets, 10 countries, 15 segments), and leaves out no group with at
\* least 100 searches whose rate is higher than that of a listed group.
C20_TopN ==
    topn.selected =>
        /\ \A r \in Range(topn.rows) : r \in Range(topn.table) /\ r.searches >= 100
        /\ \A i, j \in 1..Len(topn.rows) :
              i < j => ~HigherRate(topn.rows[j], topn.rows[i])
        /\ Len(topn.rows) <= (IF topn.kind = "full_segment" THEN 15 ELSE 10)
        /\ \A g \in Range(topn.table) :
              (g.searches >= 100 /\ g \notin Range(topn.rows)) =>
                  \A r \in Range(topn.rows) : ~HigherRate(g, r)

C20_Witness ==
    /\ topn.selected
    /\ topn.kind = "full_segment"
    /\ Len(topn.rows) = 15
    /\ \E g \in Range(topn.table) : g.searches < 100 /\ HigherRate(g, topn.rows[1])
    /\ \E g \in Range(topn.table) : g.searches >= 100 /\ g \notin Range(topn.rows)
    /\ \E r \in Range(topn.rows) : r.searches = 100
    /\ HigherRate(topn.rows[1], topn.rows[15])

\* C14: when the computation of one tab raises, the failure stays in that
\* tab: the run still renders each of the other five tabs.
C14_FailureConfined ==
    (app.pc \in {"done", "failed"} /\ app.raised.at \in Range(Tabs)) =>
        \A k \in 1..Len(Tabs) :
            Tabs[k] # app.raised.at => Tabs[k] \in Range(app.rendered)

C22_BodyRunsOnce ==
    [][(app.pc = "load" /\ app'.pc # "load" /\ app.first # << >>)
          => /\ app'.body_runs = app.body_runs
             /\ app'.body_runs = 1
             /\ status' = "loaded"
             /\ df' = app.first[1].frame
             /\ columns' = app.first[1].columns]_vars

C22_Witness ==
    /\ app.run = 2
    /\ app.pc = "sample"
    /\ app.written
    /\ app.body_runs = 1
    /\ Len(df) >= SampleSize
    /\ df = load_data(csv)

\* C23: a loaded record labelled '1-3 days' has a trip_duration from 1 to 3,
\* and a loaded record labelled '0-6 days' has a booking_window from 0 to 6
C23_LabelsMatchRanges ==
    Loaded =>
        \A n \in Rows :
            /\ df[n].duration_category = "1-3 days"
                  => (~df[n].trip_duration.isna /\ df[n].trip_duration.v \in 1..3)
            /\ df[n].window_category = "0-6 days"
                  => (~df[n].booking_window.isna /\ df[n].booking_window.v \in 0..6)

\* C24: for every choice of the simulator's widgets, the four labels the
\* simulator derives are the labels load_data derives from the same values
C24_SimulatorMatchesLoader ==
    (view.name = "simulator" /\ view.predicted) =>
        /\ view.travel_group = travel_group(view.adults, view.children)
        /\ view.duration = duration_category(Num(view.trip_days))
        /\ view.window = window_category(Num(view.booking_window_days))
        /\ view.device_package = device_package(view.is_mobile, view.is_package)

C24_Witness ==
    /\ view.name = "simulator"
    /\ view.predicted
    /\ view.trip_days = 3
    /\ view.booking_window_days = 7
    /\ view.adults = 1
    /\ view.children > 0
    /\ view.device_package = "Mobile, Non-Package"

DistanceChoices == << "< 100", "100-500", "500-1000", "1000-2000", "> 2000" >>

\* the searches the geospatial view counts in bucket number i
BucketSearches(i) ==
    LET hits == {k \in 1..Len(view.distance_conv) :
                    view.distance_conv[k].key = cut_labels[i]}
    IN  IF hits = {} THEN 0 ELSE view.distance_conv[CHOOSE k \in hits : TRUE].searches

\* C25: the geospatial view puts every record that has a distance in the
\* bucket that corresponds to the record's distance_category, and drops none
C25_BucketsAgree ==
    (Loaded /\ view.name = "geospatial") =>
        \A i \in 1..Len(cut_labels) :
            BucketSearches(i) =
                Cardinality({n \in Rows :
                                /\ ~df[n].orig_destination_distance.isna
                                /\ df[n].distance_category = DistanceChoices[i]})

\* C26: the size of the sample the predictive-model tab asks for never
\* exceeds the number of records left once the records without trip_duration
\* or booking_window are dropped, so drawing the sample does not fail
C26_SampleFits ==
    (Loaded /\ view.name = "predictive_model") =>
        /\ min(SampleCap, Len(df)) <= Len(model_population(df))
        /\ view.error # "ValueError"

\* the statements that read the rate of one named group out of a summary
NamedGroupReads ==
    [ user_device |-> {40, 41, 42}, recommendations |-> {110, 148, 149, 181, 182} ]

\* C27: no view that reads the rate of a named group fails on a summary that
\* has no row for the group: the read falls back to a default
C27_NamedGroupFallback ==
    (Loaded /\ view.name \in DOMAIN NamedGroupReads) =>
        ~(view.error = "IndexError" /\ view.line \in NamedGroupReads[view.name])

\* C28: a run whose load_data raised reports the error, stops and calls no
\* tab; a run whose load_data succeeded ends with the six tabs rendered in
\* their fixed order, each once
C28_LoadGatesTabs ==
    /\ app.pc = "stopped"
          => /\ status = "error"
             /\ app.reported = "Error loading data"
             /\ app.rendered = << >>
    /\ (status = "loaded" /\ app.pc \in {"done", "failed"}) => app.rendered = Tabs

\* the tabs before the predictive-model tab and that tab, in order
UpToPredictiveModel == SubSeq(Tabs, 1, 4)

\* C29: when feature preparation, training or prediction raises, the
\* predictive-model tab reports the error and returns: the tab counts as
\* rendered, nothing is raised into the run, and the run goes on with the
\* recommendations tab
C29_ModelFailureCaught ==
    (view.name = "predictive_model" /\ app.pc \notin {"load", "sample"}
        /\ predictive_model_raises_at(df) = 0)
       => /\ view.error = ""
          /\ app.raised = NoError
          /\ app.rendered = UpToPredictiveModel
          /\ app.pc = Tabs[5]

C29_Witness ==
    /\ view.name = "predictive_model"
    /\ view.error = ""
    /\ view.reported = "Error in model training or prediction"
    /\ app.pc = Tabs[5]
    /\ app.rendered = UpToPredictiveModel

\* C30: the 'Mobile Searches' metric is 100 * mobile searches / total
\* searches, a percentage like the 'Conversion Rate' metric next to it
C30_MobileSharePercent ==
    (Loaded /\ view.name = "key_metrics" /\ view.error = "") =>
        view.mobile_searches = percent_of(count_rows(df, "is_mobile", 1), Len(df))

====
